---- MODULE Spec2Model ----
(***************************************************************************)
(* Model of app/utils/config.py: the .env file is loaded into the process  *)
(* environment (load_dotenv, override=False), the Settings class declares  *)
(* twelve typed fields, and the module body binds one validated instance   *)
(* to the module attribute `settings`.                                     *)
(*                                                                         *)
(* Raw values are strings, modelled as sequences of one-character strings. *)
(* Values held by a Settings instance are tagged: [int |-> n] for a Python *)
(* int and [str |-> s] for a Python str.                                   *)
(***************************************************************************)
EXTENDS Integers, Sequences, FiniteSets, TLC

VARIABLES
    environ,      \* os.environ: name -> raw string
    envFile,      \* the file at ENV_FILE: [exists, vars], vars: name -> raw string
    sys_modules,  \* TRUE when app.utils.config is cached in sys.modules
    settings,     \* the module attribute: [exists, id, fields]
    raw,          \* the merged mapping the last Settings() call validated
    error,        \* the violations of the last Settings() call ({} when it succeeded)
    outcome,      \* "none" | "ok" | "failed": how the last Settings() call ended
    handed,       \* ids of the Settings instances handed to consumers so far
    nImports,     \* import statements executed
    nResolve,     \* load_dotenv calls
    nValidate,    \* Settings() calls
    nInstances,   \* Settings instances constructed
    nAssign       \* attribute assignments on the settings object

vars == <<environ, envFile, sys_modules, settings, raw, error, outcome,
          handed, nImports, nResolve, nValidate, nInstances, nAssign>>

----------------------------------------------------------------------------
(* Bounds of the model. *)

MaxImports == 2

MaxConstruct == 1

MaxAssign == 1

MaxFaulty == 3

----------------------------------------------------------------------------
(* The Settings class: field names in declaration order and their types. *)

FieldOrder ==
    << "DATABASE_URL", "SECRET_KEY", "ALGORITHM",
       "ACCESS_TOKEN_EXPIRE_MINUTES", "IDDLE_MINUTES", "SERVICE_TOKEN",
       "RATE_LIMITS_PUBLIC_ROUTES", "RATE_LIMITS_PRIVATE_ROUTES",
       "RATE_LIMITS_PUBLIC_TIME_UNIT", "RATE_LIMITS_PRIVATE_TIME_UNIT",
       "LOG_LEVEL", "LOG_DATABASE_URL" >>

Fields == { FieldOrder[i] : i \in 1..Len(FieldOrder) }

IntFields ==
    { "ACCESS_TOKEN_EXPIRE_MINUTES", "IDDLE_MINUTES",
      "RATE_LIMITS_PUBLIC_ROUTES", "RATE_LIMITS_PRIVATE_ROUTES" }

StrFields == Fields \ IntFields

\* A name the Settings class does not declare: with case_sensitive = True the
\* lower-case spelling of a field is a different name.
ExtraName == "log_level"

EmptyMap == [k \in {} |-> <<>>]

PyInt(n) == [int |-> n]

PyStr(s) == [str |-> s]

----------------------------------------------------------------------------
(* Parsing a string as an int, as the int field type does. *)

Digits == {"0", "1", "2", "3", "4", "5", "6", "7", "8", "9"}

DigitVal(c) ==
    CASE c = "0" -> 0 [] c = "1" -> 1 [] c = "2" -> 2 [] c = "3" -> 3
      [] c = "4" -> 4 [] c = "5" -> 5 [] c = "6" -> 6 [] c = "7" -> 7
      [] c = "8" -> 8 [] c = "9" -> 9

RECURSIVE Magnitude(_)
Magnitude(s) ==
    IF Len(s) = 0 THEN 0
    ELSE 10 * Magnitude(SubSeq(s, 1, Len(s) - 1)) + DigitVal(s[Len(s)])

\* A mutant of ParseInt: the digits before the first non-digit are the number
\* (15.5 parses as 15).
RECURSIVE LeadingDigits(_)
LeadingDigits(s) ==
    IF Len(s) > 0 /\ s[1] \in Digits THEN <<s[1]>> \o LeadingDigits(Tail(s)) ELSE <<>>

ParseInt_prefix(s) ==
    LET signed == Len(s) > 0 /\ s[1] \in {"-", "+"}
        body   == LeadingDigits(IF signed THEN Tail(s) ELSE s)
        good   == Len(body) > 0
    IN  [ok  |-> good,
         val |-> IF ~good THEN 0
                 ELSE IF signed /\ s[1] = "-" THEN 0 - Magnitude(body)
                 ELSE Magnitude(body)]

\* An optional sign followed by one or more decimal digits, nothing else.
ParseInt(s) ==
    LET signed == Len(s) > 0 /\ s[1] \in {"-", "+"}
        body   == IF signed THEN Tail(s) ELSE s
        good   == Len(body) > 0 /\ \A i \in 1..Len(body) : body[i] \in Digits
    IN  [ok  |-> good,
         val |-> IF ~good THEN 0
                 ELSE IF signed /\ s[1] = "-" THEN 0 - Magnitude(body)
                 ELSE Magnitude(body)]

----------------------------------------------------------------------------
(* load_dotenv(dotenv_path=ENV_FILE, override=False) *)

\* The name -> value pairs read from the file; a path that is no file reads
\* as no pairs at all.
DotenvValues(file) == IF file.exists THEN file.vars ELSE EmptyMap

\* A mutant of LoadDotenv: override=True, the file's value replaces the
\* environment's.
LoadDotenv_override(env, file) ==
    LET vals == DotenvValues(file)
    IN  [k \in DOMAIN env \cup DOMAIN vals |->
            IF k \in DOMAIN vals THEN vals[k] ELSE env[k]]

\* os.environ after the call: a name already in the environment keeps its
\* value, every other name of the file is set to the file's value.
LoadDotenv(env, file) ==
    LET vals == DotenvValues(file)
    IN  [k \in DOMAIN env \cup DOMAIN vals |->
            IF k \in DOMAIN env THEN env[k] ELSE vals[k]]

----------------------------------------------------------------------------
(* Settings(): the sources of a BaseSettings with env_file = ENV_FILE and    *)
(* case_sensitive = True, and the validation of the merged values.          *)

\* The environment source: the declared fields found in os.environ under
\* exactly their name.
EnvSettingsSource(env) == [k \in Fields \cap DOMAIN env |-> env[k]]

\* The dotenv source: every name of the env_file, the undeclared ones
\* included (extra inputs are forbidden, so they reach validation).
DotEnvSettingsSource(file) ==
    LET vals == DotenvValues(file) IN [k \in DOMAIN vals |-> vals[k]]

DeepUpdate(base, upd) ==
    [k \in DOMAIN base \cup DOMAIN upd |->
        IF k \in DOMAIN upd THEN upd[k] ELSE base[k]]

\* A mutant of BuildValues: the dotenv source is given priority over the
\* environment source.
BuildValues_dotenvFirst(env, file) ==
    DeepUpdate(EnvSettingsSource(env), DotEnvSettingsSource(file))

\* The environment source has priority over the dotenv source.
BuildValues(env, file) ==
    DeepUpdate(DotEnvSettingsSource(file), EnvSettingsSource(env))

Violation(name, type) == [loc |-> name, type |-> type]

\* A mutant of FieldErrors: int fields carry a gt=0 constraint.
FieldErrors_positive(name, values) ==
    IF name \notin DOMAIN values THEN {Violation(name, "missing")}
    ELSE IF name \in IntFields /\ ~ParseInt(values[name]).ok
         THEN {Violation(name, "int_parsing")}
         ELSE IF name \in IntFields /\ ParseInt(values[name]).val <= 0
              THEN {Violation(name, "greater_than")}
              ELSE {}

\* A mutant of FieldErrors: the time-unit and log-level fields are Literal
\* types that reject fortnight and verbose.
FieldErrors_literal(name, values) ==
    IF name \notin DOMAIN values THEN {Violation(name, "missing")}
    ELSE IF name \in IntFields /\ ~ParseInt(values[name]).ok
         THEN {Violation(name, "int_parsing")}
         ELSE IF /\ name \in {"RATE_LIMITS_PUBLIC_TIME_UNIT",
                               "RATE_LIMITS_PRIVATE_TIME_UNIT", "LOG_LEVEL"}
                 /\ values[name] \in { <<"v", "e", "r", "b", "o", "s", "e">>,
                                       <<"f", "o", "r", "t", "n", "i", "g", "h", "t">> }
              THEN {Violation(name, "literal_error")}
              ELSE {}

\* The violations of one declared field: every field is required (no
\* default); `int` must parse, `str` takes any string.
FieldErrors(name, values) ==
    IF name \notin DOMAIN values THEN {Violation(name, "missing")}
    ELSE IF name \in IntFields /\ ~ParseInt(values[name]).ok
         THEN {Violation(name, "int_parsing")}
         ELSE {}

\* A mutant of ValidationErrors: validation stops at the first field, in
\* declaration order, that has a violation.
ValidationErrors_firstOnly(values) ==
    LET bad == { i \in 1..Len(FieldOrder) : FieldErrors(FieldOrder[i], values) # {} }
    IN  IF bad = {}
        THEN { Violation(name, "extra_forbidden") : name \in DOMAIN values \ Fields }
        ELSE FieldErrors(FieldOrder[CHOOSE i \in bad : \A j \in bad : i <= j], values)

\* All violations of one validation: those of every declared field, and one
\* for every name that is no declared field.
ValidationErrors(values) ==
    UNION { FieldErrors(name, values) : name \in Fields }
    \cup { Violation(name, "extra_forbidden") : name \in DOMAIN values \ Fields }

\* The value a field holds after validation.
CoerceField(name, s) ==
    IF name \in IntFields THEN PyInt(ParseInt(s).val) ELSE PyStr(s)

\* A mutant of SettingsInit: the instance is built without validation from
\* whatever values were found (as model_construct does).
SettingsInit_construct(env, file) ==
    LET values == BuildValues(env, file)
    IN  [ok     |-> TRUE,
         values |-> values,
         errors |-> {},
         fields |-> [name \in Fields \cap DOMAIN values |->
                        CoerceField(name, values[name])]]

\* A mutant of SettingsInit: an env_file that does not exist is an error.
SettingsInit_strictFile(env, file) ==
    LET values == BuildValues(env, file)
        errs   == ValidationErrors(values)
                  \cup (IF file.exists THEN {} ELSE {Violation(".env", "file_not_found")})
    IN  [ok     |-> errs = {},
         values |-> values,
         errors |-> errs,
         fields |-> IF errs = {}
                    THEN [name \in Fields |-> CoerceField(name, values[name])]
                    ELSE EmptyMap]

\* Settings(): a validated instance, or a ValidationError holding every
\* violation.
SettingsInit(env, file) ==
    LET values == BuildValues(env, file)
        errs   == ValidationErrors(values)
    IN  [ok     |-> errs = {},
         values |-> values,
         errors |-> errs,
         fields |-> IF errs = {}
                    THEN [name \in Fields |-> CoerceField(name, values[name])]
                    ELSE EmptyMap]

Unbound == [exists |-> FALSE, id |-> 0, fields |-> EmptyMap]

----------------------------------------------------------------------------
(* The inputs: what the host put in the environment and in the .env file    *)
(* before the process started.                                              *)

\* A complete environment every value of which validates.
DefaultEnv ==
    [name \in Fields |->
        CASE name = "DATABASE_URL"                  -> <<"d", "b">>
          [] name = "SECRET_KEY"                    -> <<"k", "e", "y">>
          [] name = "ALGORITHM"                     -> <<"H", "S">>
          [] name = "ACCESS_TOKEN_EXPIRE_MINUTES"   -> <<"3", "0">>
          [] name = "IDDLE_MINUTES"                 -> <<"1", "5">>
          [] name = "SERVICE_TOKEN"                 -> <<"t", "o", "k">>
          [] name = "RATE_LIMITS_PUBLIC_ROUTES"     -> <<"6", "0">>
          [] name = "RATE_LIMITS_PRIVATE_ROUTES"    -> <<"2", "0", "0">>
          [] name = "RATE_LIMITS_PUBLIC_TIME_UNIT"  -> <<"m", "i", "n", "u", "t", "e">>
          [] name = "RATE_LIMITS_PRIVATE_TIME_UNIT" -> <<"h", "o", "u", "r">>
          [] name = "LOG_LEVEL"                     -> <<"i", "n", "f", "o">>
          [] name = "LOG_DATABASE_URL"              -> <<"l", "d", "b">>]

Verbose == <<"v", "e", "r", "b", "o", "s", "e">>

Fortnight == <<"f", "o", "r", "t", "n", "i", "g", "h", "t">>

\* Other values a name may be given in the environment (a plain str field
\* takes any string, so only its absence is of interest).
AltValues(name) ==
    IF name \in IntFields
    THEN { <<"a", "b", "c">>, <<"1", "5", ".", "5">>, <<"0">>, <<"1">>, <<"-", "3">> }
    ELSE IF name = "LOG_LEVEL" THEN { Verbose }
    ELSE IF name \in {"RATE_LIMITS_PUBLIC_TIME_UNIT", "RATE_LIMITS_PRIVATE_TIME_UNIT"}
         THEN { Fortnight }
         ELSE {}

\* The value a name has in the .env file when the file holds it.
FileValue(name) ==
    IF name \in IntFields THEN <<"7">>
    ELSE IF name = "LOG_LEVEL" THEN <<"d", "e", "b", "u", "g">>
    ELSE <<"f">>

Without(f, name) == [k \in DOMAIN f \ {name} |-> f[k]]

With(f, name, v) == [k \in DOMAIN f \cup {name} |-> IF k = name THEN v ELSE f[k]]

FileWith(names) == [exists |-> TRUE, vars |-> [k \in names |-> FileValue(k)]]

NoFile == [exists |-> FALSE, vars |-> EmptyMap]

\* Environments of the lifecycle specification: the complete one, one field
\* unset, one field given another value, or one undeclared name added.
EnvChoices ==
    {DefaultEnv}
    \cup { Without(DefaultEnv, name) : name \in Fields }
    \cup { With(DefaultEnv, name, v) : name \in IntFields, v \in {<<"0">>, <<"a", "b", "c">>} }
    \cup { With(DefaultEnv, name, Verbose) : name \in StrFields }
    \cup { With(DefaultEnv, ExtraName, Verbose) }

\* Files of the lifecycle specification: none, an empty one, one holding a
\* single name, one holding every field.
FileChoices ==
    {NoFile, FileWith({}), FileWith(Fields)}
    \cup { FileWith({name}) : name \in Fields \cup {ExtraName} }

Start ==
    /\ sys_modules = FALSE
    /\ settings = Unbound
    /\ raw = EmptyMap
    /\ error = {}
    /\ outcome = "none"
    /\ handed = {}
    /\ nImports = 0
    /\ nResolve = 0
    /\ nValidate = 0
    /\ nInstances = 0
    /\ nAssign = 0

Init ==
    /\ environ \in EnvChoices
    /\ envFile \in FileChoices
    /\ Start

\* The environments got from env by unsetting, or giving another value to,
\* up to n of the fields FieldOrder[from], FieldOrder[from + 1], ...
RECURSIVE Variants(_, _, _)
Variants(env, from, n) ==
    IF n = 0 \/ from > Len(FieldOrder) THEN {env}
    ELSE LET name    == FieldOrder[from]
             changed == {Without(env, name)}
                        \cup { With(env, name, v) : v \in AltValues(name) }
         IN  Variants(env, from + 1, n)
             \cup UNION { Variants(e, from + 1, n - 1) : e \in changed }

\* Environments of the validation specification: the complete one with up to
\* MaxFaulty fields unset or given another value; no file, or a file holding
\* one undeclared name.
InitValidation ==
    /\ environ \in Variants(DefaultEnv, 1, MaxFaulty)
    /\ envFile \in {NoFile, FileWith({ExtraName})}
    /\ Start

----------------------------------------------------------------------------
(* The operations. *)

\* `import app.utils.config` when the module is not in sys.modules: the module
\* body runs (lines 37-77). A ValidationError leaves the module out of
\* sys.modules, so the next import runs the body again.
ExecModule ==
    /\ ~sys_modules
    /\ nImports < MaxImports
    /\ LET env1 == LoadDotenv(environ, envFile)
           res  == SettingsInit(env1, envFile)
       IN  /\ environ' = env1
           /\ raw' = res.values
           /\ error' = res.errors
           /\ outcome' = IF res.ok THEN "ok" ELSE "failed"
           /\ sys_modules' = res.ok
           /\ settings' = IF res.ok
                          THEN [exists |-> TRUE, id |-> nInstances + 1, fields |-> res.fields]
                          ELSE settings
           /\ nInstances' = IF res.ok THEN nInstances + 1 ELSE nInstances
           /\ handed' = IF res.ok THEN handed \cup {nInstances + 1} ELSE handed
    /\ nImports' = nImports + 1
    /\ nResolve' = nResolve + 1
    /\ nValidate' = nValidate + 1
    /\ UNCHANGED <<envFile, nAssign>>

\* A mutant of ImportCached: the import runs the module body again and binds
\* a new instance (no caching).
ImportCached_reload ==
    /\ sys_modules
    /\ nImports < MaxImports
    /\ LET env1 == LoadDotenv(environ, envFile)
           res  == SettingsInit(env1, envFile)
       IN  /\ environ' = env1
           /\ raw' = res.values
           /\ error' = res.errors
           /\ outcome' = IF res.ok THEN "ok" ELSE "failed"
           /\ sys_modules' = res.ok
           /\ settings' = IF res.ok
                          THEN [exists |-> TRUE, id |-> nInstances + 1, fields |-> res.fields]
                          ELSE settings
           /\ nInstances' = IF res.ok THEN nInstances + 1 ELSE nInstances
           /\ handed' = IF res.ok THEN handed \cup {nInstances + 1} ELSE handed
    /\ nImports' = nImports + 1
    /\ nResolve' = nResolve + 1
    /\ nValidate' = nValidate + 1
    /\ UNCHANGED <<envFile, nAssign>>

\* `from app.utils.config import settings` when the module is cached: the
\* module attribute is handed out, nothing runs.
ImportCached ==
    /\ sys_modules
    /\ nImports < MaxImports
    /\ nImports' = nImports + 1
    /\ handed' = handed \cup {settings.id}
    /\ UNCHANGED <<environ, envFile, sys_modules, settings, raw, error, outcome,
                   nResolve, nValidate, nInstances, nAssign>>

\* A consumer that imported the module calls Settings() itself: a further
\* instance, validated again from the current environment and file.
Construct ==
    /\ sys_modules
    /\ nValidate - nResolve < MaxConstruct
    /\ LET res == SettingsInit(environ, envFile)
       IN  /\ raw' = res.values
           /\ error' = res.errors
           /\ outcome' = IF res.ok THEN "ok" ELSE "failed"
           /\ nInstances' = IF res.ok THEN nInstances + 1 ELSE nInstances
           /\ handed' = IF res.ok THEN handed \cup {nInstances + 1} ELSE handed
    /\ nValidate' = nValidate + 1
    /\ UNCHANGED <<environ, envFile, sys_modules, settings, nImports, nResolve, nAssign>>

\* What a consumer assigns to a field.
AssignValues == { PyStr(<<"x">>) }

\* A mutant of Assign: the model is frozen, the assignment raises and the
\* field keeps its value.
Assign_frozen(name, v) ==
    /\ settings.exists
    /\ nAssign < MaxAssign
    /\ nAssign' = nAssign + 1
    /\ UNCHANGED <<environ, envFile, sys_modules, settings, raw, error, outcome,
                   handed, nImports, nResolve, nValidate, nInstances>>

\* `settings.<name> = v`: the model is not frozen and does not validate
\* assignments, so the field takes v as given.
Assign(name, v) ==
    /\ settings.exists
    /\ nAssign < MaxAssign
    /\ settings' = [settings EXCEPT !.fields[name] = v]
    /\ nAssign' = nAssign + 1
    /\ UNCHANGED <<environ, envFile, sys_modules, raw, error, outcome, handed,
                   nImports, nResolve, nValidate, nInstances>>

Next ==
    \/ ExecModule
    \/ ImportCached
    \/ Construct
    \/ \E name \in Fields, v \in AssignValues : Assign(name, v)

Spec == Init /\ [][Next]_vars

NextValidation == ExecModule \/ ImportCached

SpecValidation == InitValidation /\ [][NextValidation]_vars

----------------------------------------------------------------------------
(* Properties of the lifecycle specification Spec. *)

\* A step that runs the module body (load_dotenv, then Settings()).
BodyRuns == nResolve' = nResolve + 1

InFile(name) == envFile.exists /\ name \in DOMAIN envFile.vars

\* C1: when the module body runs, every field found in the environment is
\* validated with the environment's value, whether or not the .env file
\* holds it too; a field found only in the file is validated with the file's
\* value; a field found in neither is absent from the validated values.
C1_Precedence ==
    [][BodyRuns =>
        \A name \in Fields :
            /\ name \in DOMAIN environ =>
                 name \in DOMAIN raw' /\ raw'[name] = environ[name]
            /\ (name \notin DOMAIN environ /\ InFile(name)) =>
                 name \in DOMAIN raw' /\ raw'[name] = envFile.vars[name]
            /\ (name \notin DOMAIN environ /\ ~InFile(name)) =>
                 name \notin DOMAIN raw'
            /\ (outcome' = "ok" /\ name \in StrFields) =>
                 settings'.fields[name] = PyStr(raw'[name])]_vars

\* A settings object built while the file held a field with another value
\* than the environment's, and while another field came from the file only.
C1_Witness ==
    /\ outcome = "ok"
    /\ nResolve = 1
    /\ \E name \in StrFields :
         /\ InFile(name)
         /\ raw[name] # envFile.vars[name]
         /\ settings.fields[name] = PyStr(DefaultEnv[name])
    /\ \E name \in Fields :
         InFile(name) /\ raw[name] = envFile.vars[name]

\* C7 as claimed: resolution and validation run exactly once however many
\* imports and accesses there are, and no second instance is ever obtained.
C7_Original ==
    /\ nImports >= 1 => (nResolve = 1 /\ nValidate = 1)
    /\ nInstances <= 1
    /\ Cardinality(handed) <= 1

\* C7 as amended: once an import of the module has succeeded, every later
\* import hands out the same settings object and runs neither load_dotenv
\* nor validation again, and the module attribute is never rebound. (A failed
\* import caches nothing, and Settings() can be called again by a consumer.)
C7_Amended ==
    [][sys_modules =>
        /\ settings.exists /\ settings.id \in handed
        /\ sys_modules'
        /\ settings'.exists /\ settings'.id = settings.id
        /\ nResolve' = nResolve
        /\ nImports' = nImports + 1 =>
             /\ nValidate' = nValidate
             /\ nInstances' = nInstances
             /\ handed' = handed \cup {settings.id}
             /\ settings' = settings]_vars

\* A second import after a successful one: one resolution, one validation,
\* one object.
C7_Witness ==
    /\ sys_modules
    /\ nImports = 2
    /\ nResolve = 1
    /\ nValidate = 1
    /\ handed = {settings.id}

\* C8 as claimed: no step changes a field of the constructed settings object.
C8_Original ==
    [][settings.exists => settings'.fields = settings.fields]_vars

\* C8 as amended: imports and further Settings() calls change no field of the
\* settings object, but an assignment to a field takes effect: that field
\* holds the assigned value, unvalidated, and every other field is unchanged.
C8_Amended ==
    [][settings.exists =>
        /\ settings'.exists /\ settings'.id = settings.id
        /\ nAssign' = nAssign => settings'.fields = settings.fields
        /\ nAssign' # nAssign =>
             \E name \in Fields :
                /\ settings'.fields[name] \in AssignValues
                /\ \A other \in Fields \ {name} :
                      settings'.fields[other] = settings.fields[other]]_vars

\* An int field that holds a str after an assignment.
C8_Witness ==
    /\ settings.exists
    /\ nAssign = 1
    /\ raw["ACCESS_TOKEN_EXPIRE_MINUTES"] = <<"3", "0">>
    /\ settings.fields["ACCESS_TOKEN_EXPIRE_MINUTES"] = PyStr(<<"x">>)

\* The violations of validating the environment alone.
EnvOnlyErrors(env) ==
    { Violation(name, "missing") : name \in Fields \ DOMAIN env }
    \cup { Violation(name, "int_parsing") :
             name \in { n \in IntFields \cap DOMAIN env :
                          env[n] \notin { <<"0">>, <<"3", "0">>, <<"1", "5">>,
                                          <<"6", "0">>, <<"2", "0", "0">> } } }

\* C9: when the .env file does not exist the module body raises no error of
\* its own and does what it would do with the environment as the only
\* source: the environment is left as it is, the validated values are the
\* environment's fields, the violations are those of the environment alone,
\* and a complete valid environment yields the settings object.
C9_OptionalFile ==
    [][(BodyRuns /\ ~envFile.exists) =>
        /\ environ' = environ
        /\ raw' = [name \in Fields \cap DOMAIN environ |-> environ[name]]
        /\ error' = EnvOnlyErrors(environ)
        /\ (error' = {}) = (outcome' = "ok")
        /\ outcome' = "ok" =>
             /\ settings'.exists
             /\ \A name \in StrFields : settings'.fields[name] = PyStr(environ[name])]_vars

\* A successful load without a .env file, LOG_LEVEL taken from the environment.
C9_Witness ==
    /\ ~envFile.exists
    /\ nResolve = 1
    /\ outcome = "ok"
    /\ settings.fields["LOG_LEVEL"] = PyStr(Verbose)

\* C10 as claimed: running the module body leaves os.environ as it was.
C10_Original ==
    [][BodyRuns => environ' = environ]_vars

\* C10 as amended: no step removes a name from os.environ or changes the
\* value of a name it holds; running the module body adds every name of the
\* .env file that the environment lacked, with the file's value, whether
\* validation then succeeds or fails, and nothing else is ever added.
C10_Amended ==
    [][/\ \A name \in DOMAIN environ :
             name \in DOMAIN environ' /\ environ'[name] = environ[name]
       /\ \A name \in DOMAIN environ' \ DOMAIN environ :
             BodyRuns /\ InFile(name) /\ environ'[name] = envFile.vars[name]
       /\ BodyRuns /\ envFile.exists =>
             \A name \in DOMAIN envFile.vars : name \in DOMAIN environ']_vars

\* A failed load that left a name of the file in the environment.
C10_Witness ==
    /\ outcome = "failed"
    /\ nResolve = 1
    /\ ExtraName \in DOMAIN environ
    /\ InFile(ExtraName)
    /\ environ[ExtraName] = envFile.vars[ExtraName]

----------------------------------------------------------------------------
(* Properties of the validation specification SpecValidation. *)

ErrorsAt(name) == { e \in error : e.loc = name }

\* The integer each decimal literal among the inputs denotes.
Literals ==
    { <<"0">>, <<"1">>, <<"-", "3">>, <<"1", "5">>, <<"3", "0">>, <<"6", "0">>,
      <<"2", "0", "0">> }

IntOf(s) ==
    CASE s = <<"0">> -> 0
      [] s = <<"1">> -> 1
      [] s = <<"-", "3">> -> 0 - 3
      [] s = <<"1", "5">> -> 15
      [] s = <<"3", "0">> -> 30
      [] s = <<"6", "0">> -> 60
      [] s = <<"2", "0", "0">> -> 200

\* The settings the specification calls enumerated, and the values it names
\* as outside their allowed sets.
EnumFields ==
    {"RATE_LIMITS_PUBLIC_TIME_UNIT", "RATE_LIMITS_PRIVATE_TIME_UNIT", "LOG_LEVEL"}

NotAllowed == {Verbose, Fortnight}

\* C2: the settings object exists only if the values validated held every
\* field and no violation was found; a load that finds a field missing fails
\* and binds no settings object; and when that one missing field is the only
\* violation, the same environment with the field supplied loads.
C2_AllOrNothing ==
    /\ settings.exists =>
         /\ outcome = "ok" /\ error = {}
         /\ \A name \in Fields :
               name \in DOMAIN raw /\ name \in DOMAIN settings.fields
         /\ \A name \in IntFields : raw[name] \in Literals
    /\ (nValidate >= 1 /\ \E name \in Fields : name \notin DOMAIN raw) =>
         /\ outcome = "failed"
         /\ ~settings.exists /\ ~sys_modules /\ handed = {}
    /\ \A name \in Fields :
         (nValidate >= 1 /\ error = {Violation(name, "missing")}) =>
            LET env1 == With(environ, name, DefaultEnv[name])
                res  == SettingsInit(LoadDotenv(env1, envFile), envFile)
            IN  res.ok /\ DOMAIN res.fields = Fields

\* A failed load whose only violation is the missing SERVICE_TOKEN.
C2_Witness ==
    /\ outcome = "failed"
    /\ error = {Violation("SERVICE_TOKEN", "missing")}
    /\ ~settings.exists

\* The example of the claim: ACCESS_TOKEN_EXPIRE_MINUTES=abc, SERVICE_TOKEN
\* missing, LOG_LEVEL=verbose, every other setting valid.
C3_Example ==
    /\ nValidate >= 1
    /\ DOMAIN raw = Fields \ {"SERVICE_TOKEN"}
    /\ raw = [name \in DOMAIN raw |->
                 IF name = "ACCESS_TOKEN_EXPIRE_MINUTES" THEN <<"a", "b", "c">>
                 ELSE IF name = "LOG_LEVEL" THEN Verbose
                 ELSE DefaultEnv[name]]

\* C3 as claimed: one violation for each setting that is missing, not an
\* integer where one is declared, not positive where an integer is declared,
\* or outside the allowed set of an enumerated setting; none for the others;
\* three violations in the example.
C3_Original ==
    /\ nValidate >= 1 =>
         \A name \in Fields :
            Cardinality(ErrorsAt(name)) =
                IF \/ name \notin DOMAIN raw
                   \/ name \in IntFields /\ raw[name] \notin Literals
                   \/ name \in IntFields /\ raw[name] \in Literals /\ IntOf(raw[name]) <= 0
                   \/ name \in EnumFields /\ raw[name] \in NotAllowed
                THEN 1 ELSE 0
    /\ C3_Example => Cardinality(error) = 3

\* C3 as amended: validation does not stop at the first violation; the one
\* error holds exactly one violation for each setting that is missing
\* ("missing") or declared int and not an integer literal ("int_parsing"),
\* and none for any other setting, whatever its value; the example yields
\* two violations, for ACCESS_TOKEN_EXPIRE_MINUTES and SERVICE_TOKEN.
C3_Amended ==
    /\ nValidate >= 1 =>
         /\ (outcome = "failed") = (error # {})
         /\ \A name \in Fields :
               ErrorsAt(name) =
                  IF name \notin DOMAIN raw THEN {Violation(name, "missing")}
                  ELSE IF name \in IntFields /\ raw[name] \notin Literals
                       THEN {Violation(name, "int_parsing")}
                       ELSE {}
    /\ C3_Example =>
         error = { Violation("ACCESS_TOKEN_EXPIRE_MINUTES", "int_parsing"),
                   Violation("SERVICE_TOKEN", "missing") }

\* The example has been validated and failed with its two violations.
C3_Witness ==
    /\ C3_Example
    /\ outcome = "failed"
    /\ Cardinality(error) = 2

\* C4 as claimed: an integer setting whose value parses to an integer <= 0
\* has a violation and no settings object is bound.
C4_Original ==
    nValidate >= 1 =>
        \A name \in IntFields :
            (name \in DOMAIN raw /\ raw[name] \in Literals /\ IntOf(raw[name]) <= 0) =>
                ErrorsAt(name) # {} /\ ~settings.exists

\* C4 as amended: an integer setting whose value is an integer literal has no
\* violation whatever its sign (0 and -3 pass as 1 does), and the field of the
\* settings object holds that integer.
C4_Amended ==
    nValidate >= 1 =>
        \A name \in IntFields :
            (name \in DOMAIN raw /\ raw[name] \in Literals) =>
                /\ ErrorsAt(name) = {}
                /\ settings.exists => settings.fields[name] = PyInt(IntOf(raw[name]))

\* A settings object bound with ACCESS_TOKEN_EXPIRE_MINUTES = 0.
C4_Witness ==
    /\ settings.exists
    /\ raw["ACCESS_TOKEN_EXPIRE_MINUTES"] = <<"0">>
    /\ settings.fields["ACCESS_TOKEN_EXPIRE_MINUTES"] = PyInt(0)

\* C5 as claimed: a time-unit or log-level setting whose value is outside the
\* allowed set has a violation and no settings object is bound.
C5_Original ==
    nValidate >= 1 =>
        \A name \in EnumFields :
            (name \in DOMAIN raw /\ raw[name] \in NotAllowed) =>
                ErrorsAt(name) # {} /\ ~settings.exists

\* C5 as amended: the time-unit and log-level settings are plain strings; a
\* present value has no violation, fortnight and verbose included, and the
\* field of the settings object holds the value as given.
C5_Amended ==
    nValidate >= 1 =>
        \A name \in EnumFields :
            name \in DOMAIN raw =>
                /\ ErrorsAt(name) = {}
                /\ settings.exists => settings.fields[name] = PyStr(raw[name])

\* A settings object bound with LOG_LEVEL = verbose and a time unit of
\* fortnight.
C5_Witness ==
    /\ settings.exists
    /\ raw["LOG_LEVEL"] = Verbose
    /\ raw["RATE_LIMITS_PUBLIC_TIME_UNIT"] = Fortnight
    /\ settings.fields["LOG_LEVEL"] = PyStr(Verbose)

\* C6: an integer setting whose value is present and is no integer literal
\* (abc, 15.5) has an int_parsing violation and no settings object is bound;
\* in a settings object every integer field holds the integer its literal
\* denotes, not the string.
C6_IntegerType ==
    nValidate >= 1 =>
        \A name \in IntFields :
            /\ (name \in DOMAIN raw /\ raw[name] \notin Literals) =>
                 /\ Violation(name, "int_parsing") \in error
                 /\ outcome = "failed"
                 /\ ~settings.exists
            /\ settings.exists =>
                 /\ settings.fields[name] = PyInt(IntOf(raw[name]))
                 /\ settings.fields[name] # PyStr(raw[name])

\* A failed load with ACCESS_TOKEN_EXPIRE_MINUTES = 15.5.
C6_Witness ==
    /\ outcome = "failed"
    /\ "ACCESS_TOKEN_EXPIRE_MINUTES" \in DOMAIN raw
    /\ raw["ACCESS_TOKEN_EXPIRE_MINUTES"] = <<"1", "5", ".", "5">>
    /\ error = {Violation("ACCESS_TOKEN_EXPIRE_MINUTES", "int_parsing")}

====
